---- MODULE Spec2Model ----
(***************************************************************************)
(* Krishi Mitra: crop disease detection backend.                           *)
(*                                                                         *)
(* Python strings are modelled as sequences of one-character strings, so   *)
(* that lower(), strip(), replace(), split() and endswith() are computed   *)
(* character by character.  Floats are modelled exactly as rationals       *)
(* [num, den] where the code does exact arithmetic on them, and as         *)
(* fixed-point numbers in units of 1/AtolInv where the code calls exp().   *)
(***************************************************************************)
EXTENDS Integers, Sequences, FiniteSets, TLC

VARIABLES
    pc,             \* "idle" | "called" | "done": position of the one caller
    arg,            \* the pending call and its inputs
    ret,            \* what the last call returned (or raised)
    variant,        \* which app is deployed: "app" (krishi-mitra-app/backend) | "legacy" (backend)
    model,          \* app.py global `model`: the CropDiseaseModel object, or absent
    DISEASE_DB,     \* disease_info._DISEASE_DB
    DEFAULT_ENTRY,  \* disease_info._DEFAULT_ENTRY
    lists,          \* heap of the list objects the advisory entries refer to
    startup,        \* module-level startup of app.py: its phase, the files and
                    \* environment it finds, and what it did
    inflight        \* the requests the server's threads are handling

vars == <<pc, arg, ret, variant, model, DISEASE_DB, DEFAULT_ENTRY, lists, startup, inflight>>

(***************************************************************************)
(* Bounds                                                                  *)
(***************************************************************************)
\* longest enumerated slug given to get_info_for_simple
MaxLen == 5
\* threads of the server that handle requests at the same time
NumWorkers == 2
\* longest example_classes list a caller grows by appending
MaxListLen == 3
\* longest output vector a loaded model returns
MaxOut == 3
\* number of pixel bytes of an image
NumPixels == 2

(***************************************************************************)
(* Python str operations                                                   *)
(***************************************************************************)
UpperChars == <<"A","B","C","D","E","F","G","H","I","J","K","L","M",
                "N","O","P","Q","R","S","T","U","V","W","X","Y","Z">>
LowerChars == <<"a","b","c","d","e","f","g","h","i","j","k","l","m",
                "n","o","p","q","r","s","t","u","v","w","x","y","z">>

\* str.lower() on one character
LowerChar(c) ==
    IF \E i \in 1..Len(UpperChars) : UpperChars[i] = c
    THEN LowerChars[CHOOSE i \in 1..Len(UpperChars) : UpperChars[i] = c]
    ELSE c

\* str.lower()
StrLower(s) == [i \in 1..Len(s) |-> LowerChar(s[i])]

\* the characters str.strip() removes
Whitespace == {" ", "\t", "\n", "\r"}

RECURSIVE LStrip(_)
LStrip(s) ==
    IF s # <<>> /\ Head(s) \in Whitespace THEN LStrip(Tail(s)) ELSE s

RECURSIVE RStrip(_)
RStrip(s) ==
    IF s # <<>> /\ s[Len(s)] \in Whitespace
    THEN RStrip(SubSeq(s, 1, Len(s) - 1))
    ELSE s

\* str.strip()
StrStrip(s) == RStrip(LStrip(s))

\* s.startswith(p)
StartsWith(s, p) == Len(s) >= Len(p) /\ SubSeq(s, 1, Len(p)) = p

\* s.endswith(p)
EndsWith(s, p) ==
    Len(s) >= Len(p) /\ SubSeq(s, Len(s) - Len(p) + 1, Len(s)) = p

\* `sub in s`
StrContains(s, sub) ==
    \E i \in 1..(Len(s) - Len(sub) + 1) : SubSeq(s, i, i + Len(sub) - 1) = sub

\* s.replace(old, new): leftmost non-overlapping occurrences, old non-empty
RECURSIVE StrReplace(_, _, _)
StrReplace(s, old, new) ==
    IF Len(s) < Len(old) THEN s
    ELSE IF StartsWith(s, old)
         THEN new \o StrReplace(SubSeq(s, Len(old) + 1, Len(s)), old, new)
         ELSE <<Head(s)>> \o StrReplace(Tail(s), old, new)

\* s.split(sep, 1)[0] and s.split(sep)[0]: the part before the first sep
RECURSIVE SplitFirst(_, _)
SplitFirst(s, sep) ==
    IF Len(s) < Len(sep) THEN s
    ELSE IF StartsWith(s, sep) THEN <<>>
         ELSE <<Head(s)>> \o SplitFirst(Tail(s), sep)

(***************************************************************************)
(* disease_info.py                                                         *)
(***************************************************************************)
\* _DISEASE_DB as the module builds it at import.  The long advisory texts
\* are kept as opaque strings; "--" stands for the em dash of the source.
\* example_classes holds a reference into `lists`.
InitialDiseaseDB ==
    ( <<"t","o","m","a","t","o","_","l","a","t","e","_","b","l","i","g","h","t">> :>
        [friendly_name |-> <<"T","o","m","a","t","o"," ","-","-"," ","L","a","t","e"," ","B","l","i","g","h","t">>,
         treatment |-> "Remove and safely destroy heavily infected plants and plant parts. ...",
         prevention |-> "Plant resistant varieties where available, avoid overhead irrigation, ...",
         example_classes |-> "list_tomato_late_blight"] )
    @@
    ( <<"t","o","m","a","t","o","_","h","e","a","l","t","h","y">> :>
        [friendly_name |-> <<"T","o","m","a","t","o"," ","-","-"," ","H","e","a","l","t","h","y">>,
         treatment |-> "No treatment required. Maintain good cultural practices and monitor for pests/diseases.",
         prevention |-> "Maintain balanced fertilization, regular monitoring and sanitation to keep plants healthy.",
         example_classes |-> "list_tomato_healthy"] )
    @@
    ( <<"p","o","t","a","t","o","_","e","a","r","l","y","_","b","l","i","g","h","t">> :>
        [friendly_name |-> <<"P","o","t","a","t","o"," ","-","-"," ","E","a","r","l","y"," ","B","l","i","g","h","t">>,
         treatment |-> "Remove affected foliage and tubers for disposal. ...",
         prevention |-> "Practice crop rotation, plant certified seed, avoid excess nitrogen fertilization, ...",
         example_classes |-> "list_potato_early_blight"] )
    @@
    ( <<"p","o","t","a","t","o","_","h","e","a","l","t","h","y">> :>
        [friendly_name |-> <<"P","o","t","a","t","o"," ","-","-"," ","H","e","a","l","t","h","y">>,
         treatment |-> "No treatment needed. Continue routine crop management and scouting.",
         prevention |-> "Use certified seed, rotate crops, and follow good irrigation and nutrient management."] )
    @@
    ( <<"c","o","r","n","_","c","o","m","m","o","n","_","r","u","s","t">> :>
        [friendly_name |-> <<"M","a","i","z","e","/","C","o","r","n"," ","-","-"," ","C","o","m","m","o","n"," ","R","u","s","t">>,
         treatment |-> "Rust is often managed by planting resistant hybrids and timely fungicide applications ...",
         prevention |-> "Use resistant varieties, rotate crops where possible, and avoid excessive plant density. ...",
         example_classes |-> "list_corn_common_rust"] )
    @@
    ( <<"c","o","r","n","_","h","e","a","l","t","h","y">> :>
        [friendly_name |-> <<"C","o","r","n"," ","-","-"," ","H","e","a","l","t","h","y">>,
         treatment |-> "No treatment required.",
         prevention |-> "Maintain best agronomic practices and monitor for pests and diseases."] )

\* _DEFAULT_ENTRY as the module builds it at import
InitialDefaultEntry ==
    [friendly_name |-> <<"U","n","k","n","o","w","n"," ","/"," ","N","o","t"," ","f","o","u","n","d">>,
     treatment |-> "No specific treatment available for this detected class. ...",
     prevention |-> "General good practices: use certified seed/planting material, rotate crops, ...",
     example_classes |-> "list_default"]

\* the list literals of _DISEASE_DB and _DEFAULT_ENTRY
InitialLists ==
    [ list_tomato_late_blight |->
        << <<"T","o","m","a","t","o","_","_","_","L","a","t","e","_","b","l","i","g","h","t">>,
           <<"T","o","m","a","t","o","_","_","_","H","e","a","l","t","h","y">> >>,
      list_tomato_healthy |->
        << <<"T","o","m","a","t","o","_","_","_","H","e","a","l","t","h","y">> >>,
      list_potato_early_blight |->
        << <<"P","o","t","a","t","o","_","_","_","E","a","r","l","y","_","b","l","i","g","h","t">>,
           <<"P","o","t","a","t","o","_","_","_","H","e","a","l","t","h","y">> >>,
      list_corn_common_rust |->
        << <<"C","o","r","n","_","_","_","C","o","m","m","o","n","_","r","u","s","t">>,
           <<"C","o","r","n","_","_","_","H","e","a","l","t","h","y">> >>,
      list_default |-> <<>> ]

\* the `while "__" in s: s = s.replace("__", "_")` loop
RECURSIVE CollapseUnderscores(_)
CollapseUnderscores(s) ==
    IF StrContains(s, <<"_","_">>)
    THEN CollapseUnderscores(StrReplace(s, <<"_","_">>, <<"_">>))
    ELSE s

\* a plausible slip: the trailing while loop is left out
normalize_simple_noloop(simple) ==
    IF simple = <<>> THEN <<>>
    ELSE LET s0 == StrStrip(StrLower(simple))
             s1 == StrReplace(s0, <<"_","_","_">>, <<"_">>)
             s2 == StrReplace(s1, <<"_","_">>, <<"_">>)
             s3 == StrReplace(s2, <<" ","-"," ">>, <<"_">>)
             s4 == StrReplace(s3, <<" ">>, <<"_">>)
         IN  s4

\* _normalize_simple(simple)
normalize_simple(simple) ==
    IF simple = <<>> THEN <<>>
    ELSE LET s0 == StrStrip(StrLower(simple))
             s1 == StrReplace(s0, <<"_","_","_">>, <<"_">>)
             s2 == StrReplace(s1, <<"_","_">>, <<"_">>)
             s3 == StrReplace(s2, <<" ","-"," ">>, <<"_">>)
             s4 == StrReplace(s3, <<" ">>, <<"_">>)
         IN  CollapseUnderscores(s4)

\* f"Unknown ({simple})"
UnknownName(simple) ==
    <<"U","n","k","n","o","w","n"," ","(">> \o simple \o <<")">>

\* a plausible slip: the fallback is annotated with the normalized key
get_info_for_simple_key(db, default, simple) ==
    LET key == normalize_simple(simple)
    IN  IF key \in DOMAIN db /\ DOMAIN db[key] # {}
        THEN db[key]
        ELSE [default EXCEPT !.friendly_name =
                 IF simple # <<>> THEN UnknownName(key) ELSE @]

\* get_info_for_simple(simple): the dict it returns.  dict(entry) is a
\* shallow copy, so the result's example_classes is the same list reference.
get_info_for_simple(db, default, simple) ==
    LET key == normalize_simple(simple)
    IN  IF key \in DOMAIN db /\ DOMAIN db[key] # {}
        THEN db[key]
        ELSE [default EXCEPT !.friendly_name =
                 IF simple # <<>> THEN UnknownName(simple) ELSE @]

\* a plausible slip: the fallback is the default entry itself, not a copy
get_info_tables_nocopy(db, default, simple) ==
    LET key == normalize_simple(simple)
    IN  IF key \in DOMAIN db /\ DOMAIN db[key] # {}
        THEN [db |-> db, default |-> default]
        ELSE [db |-> db,
              default |-> [default EXCEPT !.friendly_name =
                              IF simple # <<>> THEN UnknownName(simple) ELSE @]]

\* get_info_for_simple(simple): the module tables after the call.  entry is
\* only read and the assignment to fallback["friendly_name"] writes to the
\* copy dict(_DEFAULT_ENTRY), so neither table is written.
get_info_tables(db, default, simple) == [db |-> db, default |-> default]

(***************************************************************************)
(* Numbers                                                                 *)
(***************************************************************************)
\* atol=1e-3 of the np.allclose call is 1/AtolInv; model outputs and
\* probabilities are fixed-point numbers in units of 1/AtolInv
AtolInv == 1000
\* numpy's default rtol=1e-5 of np.allclose is 1/RtolInv
RtolInv == 100000
\* pixel bytes are divided by 255.0
PixelMax == 255

Abs(n) == IF n < 0 THEN -n ELSE n

RECURSIVE SeqSum(_)
SeqSum(s) == IF s = <<>> THEN 0 ELSE Head(s) + SeqSum(Tail(s))

RECURSIVE SeqMax(_)
SeqMax(s) ==
    IF Len(s) = 1 THEN s[1]
    ELSE LET m == SeqMax(Tail(s)) IN IF Head(s) >= m THEN Head(s) ELSE m

\* rationals [num, den] with den > 0, compared by cross-multiplication
Rat(n, d) == [num |-> n, den |-> d]
RatLeq(a, b) == a.num * b.den <= b.num * a.den

\* the series 1 + d + d^2/2! + ... in fixed point, for d >= 0
RECURSIVE ExpSeries(_, _, _)
ExpSeries(d, k, term) ==
    IF term = 0 THEN 0
    ELSE term + ExpSeries(d, k + 1, (term * d) \div (AtolInv * (k + 1)))

\* np.exp(z) for z <= 0, in fixed point: 1 / exp(-z)
NpExp(z) == (AtolInv * AtolInv) \div ExpSeries(-z, 0, AtolInv)

\* np.argmax(v): the first index of the maximum, 0-based (v non-empty)
NpArgmax(v) ==
    (CHOOSE i \in 1..Len(v) :
        /\ \A j \in 1..Len(v) : v[j] <= v[i]
        /\ \A j \in 1..(i - 1) : v[j] < v[i]) - 1

\* a plausible slip: atol=1e-2
NpAllcloseOneLoose(total) ==
    Abs(total - AtolInv) * RtolInv <= 10 * RtolInv + AtolInv

\* np.allclose(total, 1.0, atol=1e-3): |total - 1| <= atol + rtol * |1.0|
NpAllcloseOne(total) ==
    Abs(total - AtolInv) * RtolInv <= RtolInv + AtolInv

(***************************************************************************)
(* krishi-mitra-app/backend/model.py                                       *)
(***************************************************************************)
\* the fallback demo classes of __init__
DefaultClasses ==
    << <<"T","o","m","a","t","o","_","_","_","L","a","t","e","_","b","l","i","g","h","t">>,
       <<"T","o","m","a","t","o","_","_","_","H","e","a","l","t","h","y">>,
       <<"P","o","t","a","t","o","_","_","_","E","a","r","l","y","_","b","l","i","g","h","t">>,
       <<"P","o","t","a","t","o","_","_","_","H","e","a","l","t","h","y">>,
       <<"C","o","r","n","_","_","_","C","o","m","m","o","n","_","r","u","s","t">>,
       <<"C","o","r","n","_","_","_","H","e","a","l","t","h","y">> >>

\* safe_readlines(path): a file is [readable, lines]
safe_readlines(file) ==
    IF ~file.readable THEN <<>>
    ELSE LET stripped == [i \in 1..Len(file.lines) |-> StrStrip(file.lines[i])]
         IN  SelectSeq(stripped, LAMBDA ln : ln # <<>>)

SeqRange(s) == {s[i] : i \in 1..Len(s)}

\* the plant of a class label, as __init__ groups it
PlantOfClass(c) ==
    IF StrContains(c, <<"_","_","_">>) THEN SplitFirst(c, <<"_","_","_">>)
    ELSE IF StrContains(c, <<" ","-"," ">>) THEN SplitFirst(c, <<" ","-"," ">>)
    ELSE SplitFirst(c, <<"_">>)

\* full.replace("___", "_").replace(" ", "_").lower()
SimpleOfClass(full) ==
    StrLower(StrReplace(StrReplace(full, <<"_","_","_">>, <<"_">>), <<" ">>, <<"_">>))

\* detailed.replace(" ", "_").lower(), the default of the .get calls
SimpleDefault(detailed) == StrLower(StrReplace(detailed, <<" ">>, <<"_">>))

\* the plant of a result: split on "___" if present, else on "_"
PlantOfDetailed(detailed) ==
    IF StrContains(detailed, <<"_","_","_">>)
    THEN SplitFirst(detailed, <<"_","_","_">>)
    ELSE SplitFirst(detailed, <<"_">>)

\* os.path.basename of the model path app.py passes
ModelFileName == "crop_disease_model.h5"

\* a plausible slip: the os.path.exists test is left out
LoadAttemptedAnyPath(model_path, pathExists, tfAvailable) ==
    model_path # "" /\ tfAvailable

\* `if model_path and os.path.exists(model_path) and TF_AVAILABLE`: whether
\* __init__ calls load_model
LoadAttempted(model_path, pathExists, tfAvailable) ==
    model_path # "" /\ pathExists /\ tfAvailable

\* CropDiseaseModel.__init__: model_path is "" for None; pathExists,
\* tfAvailable and loadOk are what os.path.exists, the tensorflow import
\* and load_model do; mshape is the loaded model's input_shape
\* (0 for a None dimension).
CropDiseaseModel(model_path, file, pathExists, tfAvailable, loadOk, mshape) ==
    LET read    == safe_readlines(file)
        classes == IF read = <<>> THEN DefaultClasses ELSE read
        plants  == {PlantOfClass(c) : c \in SeqRange(classes)}
        loaded  == LoadAttempted(model_path, pathExists, tfAvailable) /\ loadOk
        infer   == loaded /\ Len(mshape) >= 3 /\ mshape[2] # 0 /\ Len(mshape) = 4
        p2s     == [full \in SeqRange(classes) |-> SimpleOfClass(full)]
    IN  [ kind |-> "CropDiseaseModel",
          input_size |-> IF infer THEN <<mshape[3], mshape[2]>> ELSE <<224, 224>>,
          model_path |-> model_path,
          classes |-> classes,
          classes_by_plant |->
              [p \in plants |-> SelectSeq(classes, LAMBDA c : PlantOfClass(c) = p)],
          plantvillage_to_simple |-> p2s,
          simple_to_plantvillage |->
              [s \in {p2s[full] : full \in SeqRange(classes)} |->
                  classes[CHOOSE i \in 1..Len(classes) :
                      /\ p2s[classes[i]] = s
                      /\ \A j \in (i + 1)..Len(classes) : p2s[classes[j]] # s]],
          model |-> loaded,
          model_input_shape |->
              IF infer THEN <<mshape[2], mshape[3], mshape[4]>> ELSE <<224, 224, 3>>,
          simple_classes |-> [i \in 1..Len(classes) |-> p2s[classes[i]]],
          index_to_class |-> [i \in 0..(Len(classes) - 1) |-> classes[i + 1]] ]

\* the exception outcome of a computation inside a try block
Raised == [kind |-> "raise"]

\* preprocess(image): an image is [loadable, pixels]; pixels are the bytes
\* of the resized RGB array, flattened.  PIL loads lazily, so convert() or
\* resize() raises for an image that cannot be loaded.  The tensor keeps
\* the bytes; its values are bytes / 255.
preprocess(self, image) ==
    IF ~image.loadable THEN Raised
    ELSE [kind |-> "tensor",
          shape |-> <<1, self.input_size[2], self.input_size[1], 3>>,
          data |-> image.pixels]

\* softmax(x): exp(x - max) / sum
softmax(x) ==
    LET m == SeqMax(x)
        e == [i \in 1..Len(x) |-> NpExp(x[i] - m)]
        total == SeqSum(e)
    IN  [i \in 1..Len(x) |-> (e[i] * AtolInv) \div total]

\* self.index_to_class.get(idx, default)
IndexToClassGet(self, idx, default) ==
    IF idx \in DOMAIN self.index_to_class THEN self.index_to_class[idx] ELSE default

\* self.plantvillage_to_simple.get(detailed, detailed.replace(" ", "_").lower())
SimpleGet(self, detailed) ==
    IF detailed \in DOMAIN self.plantvillage_to_simple
    THEN self.plantvillage_to_simple[detailed]
    ELSE SimpleDefault(detailed)

\* the dict predict returns
Result(plant, disease, confidence, detailed, used) ==
    [kind |-> "return", plant |-> plant, disease |-> disease,
     confidence |-> confidence, detailed_class |-> detailed, model_used |-> used]

\* the branch `if self.model is not None`: out is what self.model.predict
\* does, [raises, preds] with preds already reshaped to one dimension
ModelPath(self, out) ==
    IF out.raises \/ out.preds = <<>> THEN Raised
    ELSE LET preds == out.preds
             probs == IF ~NpAllcloseOne(SeqSum(preds)) THEN softmax(preds) ELSE preds
             idx == NpArgmax(probs)
             detailed == IndexToClassGet(self, idx, <<"U","n","k","n","o","w","n">>)
         IN  Result(PlantOfDetailed(detailed), SimpleGet(self, detailed),
                    Rat(probs[idx + 1], AtolInv), detailed,
                    IF self.model_path # "" THEN ModelFileName ELSE "trained-model")

\* np.mean(x) of the tensor, exactly
MeanIntensity(x) == Rat(SeqSum(x.data), PixelMax * Len(x.data))

\* a plausible slip: the index is not clamped to the vocabulary
DemoIndexUnclamped(avg, n) == (avg.num * n) \div avg.den

\* int(min(len(classes)-1, max(0, int(avg * len(classes)))))
DemoIndex(avg, n) ==
    LET raw == (avg.num * n) \div avg.den
        lo  == IF raw > 0 THEN raw ELSE 0
    IN  IF lo < n - 1 THEN lo ELSE n - 1

\* 0.5 + (avg % 0.5)
DemoConfidence(avg) ==
    Rat(avg.den + ((2 * avg.num) % avg.den), 2 * avg.den)

\* a plausible slip: model_used is taken from model_path as in the model branch
DemoPathByPath(self, x) ==
    LET avg == MeanIntensity(x)
        idx == DemoIndex(avg, Len(self.classes))
        detailed == IndexToClassGet(self, idx, self.classes[1])
    IN  Result(PlantOfDetailed(detailed), SimpleGet(self, detailed),
               DemoConfidence(avg), detailed,
               IF self.model_path # "" THEN ModelFileName ELSE "demo-mode")

\* the else branch: demo mode
DemoPath(self, x) ==
    LET avg == MeanIntensity(x)
        idx == DemoIndex(avg, Len(self.classes))
        detailed == IndexToClassGet(self, idx, self.classes[1])
    IN  Result(PlantOfDetailed(detailed), SimpleGet(self, detailed),
               DemoConfidence(avg), detailed, "demo-mode")

\* the except branch: the safe fallback
ErrorFallback(self) ==
    LET fallback == self.classes[1]
    IN  Result(PlantOfDetailed(fallback), SimpleGet(self, fallback),
               Rat(0, 1), fallback, "error")

\* the body of the try block of predict
PredictTry(self, image, out) ==
    LET x == preprocess(self, image)
    IN  IF x.kind = "raise" THEN Raised
        ELSE IF self.model THEN ModelPath(self, out) ELSE DemoPath(self, x)

\* a plausible slip: no except branch
predict_uncaught(self, image, out) == PredictTry(self, image, out)

\* CropDiseaseModel.predict(image_pil)
predict(self, image, out) ==
    LET r == PredictTry(self, image, out)
    IN  IF r.kind = "raise" THEN ErrorFallback(self) ELSE r

(***************************************************************************)
(* backend/model.py                                                        *)
(***************************************************************************)
\* the fixed plantvillage_to_simple of the older adapter, in dict order
LegacyLabels ==
    << <<"T","o","m","a","t","o","_","_","_","h","e","a","l","t","h","y">>,
       <<"T","o","m","a","t","o","_","_","_","B","a","c","t","e","r","i","a","l","_","s","p","o","t">>,
       <<"T","o","m","a","t","o","_","_","_","E","a","r","l","y","_","b","l","i","g","h","t">>,
       <<"T","o","m","a","t","o","_","_","_","L","a","t","e","_","b","l","i","g","h","t">> >>

LegacySimple ==
    ( LegacyLabels[1] :> <<"h","e","a","l","t","h","y">> ) @@
    ( LegacyLabels[2] :> <<"b","a","c","t","e","r","i","a","l","_","b","l","i","g","h","t">> ) @@
    ( LegacyLabels[3] :> <<"l","e","a","f","_","s","p","o","t","_","e","a","r","l","y">> ) @@
    ( LegacyLabels[4] :> <<"l","e","a","f","_","s","p","o","t","_","l","a","t","e">> )

\* load_class_names: the stripped lines of class_names.txt (blank lines
\* kept), or the keys of plantvillage_to_simple
LegacyLoadClassNames(file) ==
    IF file.readable
    THEN [i \in 1..Len(file.lines) |-> StrStrip(file.lines[i])]
    ELSE LegacyLabels

\* backend CropDiseaseModel.__init__ with load_model
LegacyModel(model_path, file, pathExists, loadOk) ==
    [ kind |-> "LegacyModel",
      plantvillage_to_simple |-> LegacySimple,
      classes |-> LegacyLoadClassNames(file),
      model |-> model_path # "" /\ pathExists /\ loadOk ]

\* the dict the older predict returns (it has no plant)
LegacyResult(disease, confidence, detailed, used) ==
    [kind |-> "return", disease |-> disease, confidence |-> confidence,
     detailed_class |-> detailed, model_used |-> used]

\* the body of the try block of the older predict; rnd is what
\* np.random.randint and np.random.random return
LegacyPredictTry(self, image, out, rnd) ==
    LET n == Len(self.classes)
        idx == IF self.model THEN NpArgmax(out.preds) ELSE rnd.idx
        conf == IF self.model
                THEN Rat(out.preds[idx + 1], AtolInv)
                ELSE Rat(28 * rnd.r.den + 10 * rnd.r.num, 40 * rnd.r.den)
    IN  IF self.model /\ (~image.loadable \/ out.raises \/ out.preds = <<>>) THEN Raised
        ELSE IF ~self.model /\ n = 0 THEN Raised
        ELSE IF idx >= n THEN Raised
        ELSE LET name == self.classes[idx + 1]
             IN  LegacyResult(IF name \in DOMAIN self.plantvillage_to_simple
                              THEN self.plantvillage_to_simple[name]
                              ELSE <<"h","e","a","l","t","h","y">>,
                              conf, name,
                              IF self.model THEN "real" ELSE "mock")

\* backend CropDiseaseModel.predict(image)
LegacyPredict(self, image, out, rnd) ==
    LET r == LegacyPredictTry(self, image, out, rnd)
    IN  IF r.kind = "raise"
        THEN LegacyResult(<<"h","e","a","l","t","h","y">>, Rat(1, 2),
                          LegacyLabels[1], "error")
        ELSE r

(***************************************************************************)
(* app.py, both variants: POST /analyze                                    *)
(***************************************************************************)
\* 10 * 1024 * 1024
MaxUploadBytes == 10 * 1024 * 1024

\* the smallest accepted width and height
MinDimension == 50

\* app.py global `model` when the adapter object is absent
NoModel == [kind |-> "None"]

\* a response: HTTP status, JSON body, and the adapter calls the handler made
Response(status, body, calls) ==
    [kind |-> "response", status |-> status, body |-> body, calls |-> calls]

ErrorBody(msg) == [error |-> msg]

\* file.filename.lower().endswith(('.jpg', '.jpeg', '.png'))
AllowedExtension(filename) ==
    LET f == StrLower(filename)
    IN  \/ EndsWith(f, <<".","j","p","g">>)
        \/ EndsWith(f, <<".","j","p","e","g">>)
        \/ EndsWith(f, <<".","p","n","g">>)

\* info.get('example_classes', []) as jsonify serialises it
ExampleClassesOf(info, lsts) ==
    IF "example_classes" \in DOMAIN info THEN lsts[info.example_classes] ELSE <<>>

\* a plausible slip: `and` instead of `or`
TooSmallBoth(width, height) == width < MinDimension /\ height < MinDimension

\* image.size[0] < 50 or image.size[1] < 50
TooSmall(width, height) == width < MinDimension \/ height < MinDimension

\* krishi-mitra-app/backend/app.py analyze_image.  A request is
\* [has_image, filename, data_len, decodable, width, height, image]:
\* decodable says whether Image.open accepts the bytes, image.loadable
\* whether the pixel data then loads (convert('RGB') loads it).
AppAnalyze(m, db, default, lsts, req, out) ==
    IF ~req.has_image THEN Response(400, ErrorBody("No image uploaded"), <<>>)
    ELSE IF req.filename = <<>> THEN Response(400, ErrorBody("No file selected"), <<>>)
    ELSE IF ~AllowedExtension(req.filename)
         THEN Response(400, ErrorBody("Please upload JPG or PNG image"), <<>>)
    ELSE IF ~req.decodable \/ ~req.image.loadable
         THEN Response(500, ErrorBody("Server error. Please try again."), <<>>)
    ELSE IF TooSmall(req.width, req.height)
         THEN Response(400, ErrorBody("Image too small. Please upload a larger image."), <<>>)
    ELSE LET result == predict(m, req.image, out)
         IN  IF result.kind = "raise"
             THEN Response(500, ErrorBody("Server error. Please try again."), <<"predict">>)
             ELSE LET info == get_info_for_simple(db, default, result.disease)
                  IN  Response(200,
                        [plant |-> result.plant,
                         disease |-> result.disease,
                         confidence |-> result.confidence,
                         detailed_class |-> result.detailed_class,
                         model_used |-> result.model_used,
                         advice |-> [friendly_name |-> info.friendly_name,
                                     treatment |-> info.treatment,
                                     prevention |-> info.prevention,
                                     example_classes |-> ExampleClassesOf(info, lsts)]],
                        <<"predict", "get_info_for_simple">>)

\* the demo body the older app answers with
LegacyDemoBody(confidence, note) ==
    [disease |-> <<"h","e","a","l","t","h","y">>, confidence |-> confidence,
     detailed_class |-> LegacyLabels[1], note |-> note]

\* backend/app.py analyze_image for a POST
LegacyAnalyze(m, req, out, rnd) ==
    IF ~req.has_image THEN Response(400, ErrorBody("No image file provided"), <<>>)
    ELSE IF req.filename = <<>> THEN Response(400, ErrorBody("No file selected"), <<>>)
    ELSE IF ~AllowedExtension(req.filename)
         THEN Response(400, ErrorBody("Invalid file type. Please upload JPG, JPEG, or PNG image"), <<>>)
    ELSE IF req.data_len = 0 THEN Response(400, ErrorBody("Empty file uploaded"), <<>>)
    ELSE IF req.data_len > MaxUploadBytes
         THEN Response(400, ErrorBody("File too large. Maximum size is 10MB"), <<>>)
    ELSE IF ~req.decodable
         THEN Response(200, LegacyDemoBody(Rat(3, 4), "Demo mode - analysis error"), <<>>)
    ELSE IF TooSmall(req.width, req.height)
         THEN Response(400, ErrorBody("Image too small. Please upload a larger image (min 50x50 pixels)."), <<>>)
    ELSE IF m.kind = "None"
         THEN Response(200, LegacyDemoBody(Rat(17, 20), "Demo mode - model not loaded"), <<>>)
    ELSE Response(200, LegacyPredict(m, req.image, out, rnd), <<"predict">>)

(***************************************************************************)
(* Inputs                                                                  *)
(***************************************************************************)
\* all strings over alphabet of length at most n
RECURSIVE StringsUpTo(_, _)
StringsUpTo(alphabet, n) ==
    IF n = 0 THEN {<<>>}
    ELSE LET shorter == StringsUpTo(alphabet, n - 1)
         IN  shorter \cup {<<c>> \o t : c \in alphabet, t \in {u \in shorter : Len(u) = n - 1}}

SlugAlphabet == {"a", "B", "_", " ", "-", "\t"}

\* slugs given to get_info_for_simple: every short string, and longer ones
\* around the keys of the table
SlugInputs ==
    StringsUpTo(SlugAlphabet, MaxLen)
    \cup DOMAIN InitialDiseaseDB
    \cup { <<"T","o","m","a","t","o","_","_","_","L","a","t","e","_","b","l","i","g","h","t">>,
           <<"T","o","m","a","t","o"," ","-"," ","H","e","a","l","t","h","y">>,
           <<" ","C","o","r","n"," "," ","H","e","a","l","t","h","y">>,
           <<"t","o","m","a","t","o","_","m","o","s","a","i","c">>,
           <<"U","n","k","n","o","w","n">>,
           <<"A","p","p","l","e"," ","-"," ","B","l","a","c","k"," ","r","o","t">> }

\* class_names.txt: absent, the two labels of the documented example (with a
\* blank line and stray whitespace), labels in the other accepted forms,
\* and a file of blank lines
ClassFiles ==
    { [readable |-> FALSE, lines |-> <<>>],
      [readable |-> TRUE, lines |->
          << <<"T","o","m","a","t","o","_","_","_","h","e","a","l","t","h","y">>,
             <<>>,
             <<"T","o","m","a","t","o","_","_","_","E","a","r","l","y","_","b","l","i","g","h","t"," ">> >>],
      [readable |-> TRUE, lines |->
          << <<"A","p","p","l","e"," ","-"," ","B","l","a","c","k"," ","r","o","t">>,
             <<"h","e","a","l","t","h","y">>,
             <<"R","i","c","e","_","b","l","a","s","t">> >>],
      [readable |-> TRUE, lines |-> << <<" ">>, <<>> >>] }

\* input_shape of a loaded model: channels-last with and without sizes
ModelShapes == { <<0, 128, 96, 3>>, <<0, 0, 0, 3>> }

\* the adapters CropDiseaseModel can construct
AppModels ==
    { CropDiseaseModel(path, file, exists, TRUE, ok, shape) :
        path \in {ModelFileName, ""}, file \in ClassFiles,
        exists \in BOOLEAN, ok \in BOOLEAN, shape \in ModelShapes }

LegacyModels ==
    { LegacyModel(ModelFileName, file, exists, ok) :
        file \in ClassFiles, exists \in BOOLEAN, ok \in BOOLEAN }

PixelValues == {0, 76, 77, 128, 255}

RECURSIVE TuplesOf(_, _)
TuplesOf(S, n) ==
    IF n = 0 THEN {<<>>}
    ELSE {<<x>> \o t : x \in S, t \in TuplesOf(S, n - 1)}

Images == [loadable : BOOLEAN, pixels : TuplesOf(PixelValues, NumPixels)]

\* entries of an output vector, in units of 1/AtolInv
OutputValues == {-500, 0, 1, 250, 500, 1001, 1500}

OutputVectors == UNION {TuplesOf(OutputValues, n) : n \in 0..MaxOut}

NoOut == [raises |-> FALSE, preds |-> <<>>]

\* what self.model.predict can do
Outputs == {[raises |-> TRUE, preds |-> <<>>]}
           \cup {[raises |-> FALSE, preds |-> v] : v \in OutputVectors}

NoRnd == [idx |-> 0, r |-> Rat(0, 1)]

\* what the random generator can return for n classes
Rnds(n) == [idx : 0..(n - 1), r : {Rat(0, 1), Rat(999, 1000)}]

OutsFor(m, outs) == IF m.kind # "None" /\ m.model THEN outs ELSE {NoOut}

\* a loaded model is handed the tensor and answers with any output, so with
\* a model the images of one colour stand for all; the demo path reads the
\* pixels and gets every image
ImagesFor(m) ==
    IF m.model
    THEN {img \in Images : \A i \in 1..NumPixels : img.pixels[i] = img.pixels[1]}
    ELSE Images

RndsFor(m) ==
    IF m.kind = "LegacyModel" /\ ~m.model /\ Len(m.classes) > 0
    THEN Rnds(Len(m.classes)) ELSE {NoRnd}

\* the server once app.run serves requests
Started == [phase |-> "serving"]

NoArg == [op |-> "none"]
NoRet == [kind |-> "none"]

\* the threads of the server
Workers == 1..NumWorkers

\* a thread that handles no request
IdleWorker == [pc |-> "idle", route |-> "none"]

NoInflight == [w \in Workers |-> IdleWorker]

(***************************************************************************)
(* Actions                                                                 *)
(***************************************************************************)
frame == <<variant, model, DISEASE_DB, DEFAULT_ENTRY, lists, startup, inflight>>

\* a caller asks for the advice of a slug
CallGetInfo ==
    /\ pc = "idle"
    /\ \E simple \in SlugInputs :
           arg' = [op |-> "get_info_for_simple", simple |-> simple]
    /\ pc' = "called"
    /\ UNCHANGED <<ret, frame>>

\* disease_info.get_info_for_simple
GetInfo ==
    /\ pc = "called"
    /\ arg.op = "get_info_for_simple"
    /\ ret' = [kind |-> "return",
               value |-> get_info_for_simple(DISEASE_DB, DEFAULT_ENTRY, arg.simple)]
    /\ DISEASE_DB' = get_info_tables(DISEASE_DB, DEFAULT_ENTRY, arg.simple).db
    /\ DEFAULT_ENTRY' = get_info_tables(DISEASE_DB, DEFAULT_ENTRY, arg.simple).default
    /\ pc' = "done"
    /\ UNCHANGED <<arg, variant, model, lists, startup, inflight>>

\* a caller hands an image to the adapter
CallPredict ==
    /\ pc = "idle"
    /\ model.kind # "None"
    /\ \E image \in ImagesFor(model), out \in OutsFor(model, Outputs), rnd \in RndsFor(model) :
           arg' = [op |-> "predict", image |-> image, out |-> out, rnd |-> rnd]
    /\ pc' = "called"
    /\ UNCHANGED <<ret, frame>>

\* CropDiseaseModel.predict of the deployed variant
Predict ==
    /\ pc = "called"
    /\ arg.op = "predict"
    /\ ret' = IF variant = "app"
              THEN predict(model, arg.image, arg.out)
              ELSE LegacyPredict(model, arg.image, arg.out, arg.rnd)
    /\ pc' = "done"
    /\ UNCHANGED <<arg, frame>>

\* the caller takes the result
Return ==
    /\ pc = "done"
    /\ pc' = "idle"
    /\ arg' = NoArg
    /\ ret' = NoRet
    /\ UNCHANGED frame

InitInfo ==
    /\ pc = "idle"
    /\ arg = NoArg
    /\ ret = NoRet
    /\ variant = "app"
    /\ model = CropDiseaseModel(ModelFileName, [readable |-> FALSE, lines |-> <<>>],
                                FALSE, TRUE, FALSE, <<0, 224, 224, 3>>)
    /\ DISEASE_DB = InitialDiseaseDB
    /\ DEFAULT_ENTRY = InitialDefaultEntry
    /\ lists = InitialLists
    /\ startup = Started
    /\ inflight = NoInflight

NextInfo == CallGetInfo \/ GetInfo \/ Return

\* calls of the advisory lookup
SpecInfo == InitInfo /\ [][NextInfo]_vars

InitPredict ==
    /\ pc = "idle"
    /\ arg = NoArg
    /\ ret = NoRet
    /\ variant \in {"app", "legacy"}
    /\ model \in IF variant = "app" THEN AppModels ELSE LegacyModels
    /\ DISEASE_DB = InitialDiseaseDB
    /\ DEFAULT_ENTRY = InitialDefaultEntry
    /\ lists = InitialLists
    /\ startup = Started
    /\ inflight = NoInflight

NextPredict == CallPredict \/ Predict \/ Return

\* calls of the adapter's predict
SpecPredict == InitPredict /\ [][NextPredict]_vars

(***************************************************************************)
(* POST /analyze: requests, actions, specification                         *)
(***************************************************************************)
Filenames ==
    { <<>>,
      <<"a",".","j","p","g">>, <<"a",".","J","P","G">>, <<"a",".","j","p","e","g">>,
      <<"a",".","p","n","g">>, <<"a",".","g","i","f">>, <<"j","p","g">>,
      <<"a",".","p","n","g",".","e","x","e">>, <<".","p","n","g">> }

DataLens == {0, 1024, MaxUploadBytes, MaxUploadBytes + 1}

Dimensions == {10, 49, 50}

NullImage == [loadable |-> FALSE, pixels |-> [i \in 1..NumPixels |-> 0]]

\* images of uniform colour
RequestImages ==
    [loadable : BOOLEAN, pixels : {[i \in 1..NumPixels |-> v] : v \in {77, 255}}]

\* a request without the image field
NoUpload ==
    [has_image |-> FALSE, filename |-> <<>>, data_len |-> 0, decodable |-> FALSE,
     width |-> 0, height |-> 0, image |-> NullImage]

\* uploads whose bytes are not an image, and uploads of an image
Uploads ==
    { [has_image |-> TRUE, filename |-> f, data_len |-> n, decodable |-> FALSE,
       width |-> 0, height |-> 0, image |-> NullImage] :
          f \in Filenames, n \in DataLens }
    \cup
    { [has_image |-> TRUE, filename |-> f, data_len |-> n, decodable |-> TRUE,
       width |-> w, height |-> h, image |-> img] :
          f \in Filenames, n \in DataLens \ {0}, w \in Dimensions, h \in Dimensions,
          img \in RequestImages }

Requests == {NoUpload} \cup Uploads

\* what a loaded model does during a request
RequestOutputs ==
    { [raises |-> TRUE, preds |-> <<>>],
      [raises |-> FALSE, preds |-> <<1000>>],
      [raises |-> FALSE, preds |-> <<1500, -500>>],
      [raises |-> FALSE, preds |-> <<0, 0, 1000>>] }

\* a client posts to /analyze
CallAnalyze ==
    /\ pc = "idle"
    /\ \E req \in Requests, out \in OutsFor(model, RequestOutputs), rnd \in RndsFor(model) :
           arg' = [op |-> "analyze", request |-> req, out |-> out, rnd |-> rnd]
    /\ pc' = "called"
    /\ UNCHANGED <<ret, frame>>

\* analyze_image of the deployed variant
Analyze ==
    /\ pc = "called"
    /\ arg.op = "analyze"
    /\ ret' = IF variant = "app"
              THEN AppAnalyze(model, DISEASE_DB, DEFAULT_ENTRY, lists, arg.request, arg.out)
              ELSE LegacyAnalyze(model, arg.request, arg.out, arg.rnd)
    /\ pc' = "done"
    /\ UNCHANGED <<arg, frame>>

\* the server after startup: app.py constructs the adapter with its model path
InitAnalyze ==
    /\ pc = "idle"
    /\ arg = NoArg
    /\ ret = NoRet
    /\ variant \in {"app", "legacy"}
    /\ model \in IF variant = "app"
                 THEN { CropDiseaseModel(ModelFileName, file, exists, TRUE, TRUE, <<0, 224, 224, 3>>) :
                            file \in ClassFiles, exists \in BOOLEAN }
                 ELSE { LegacyModel(ModelFileName, file, exists, TRUE) :
                            file \in ClassFiles, exists \in BOOLEAN }
    /\ DISEASE_DB = InitialDiseaseDB
    /\ DEFAULT_ENTRY = InitialDefaultEntry
    /\ lists = InitialLists
    /\ startup = Started
    /\ inflight = NoInflight

NextAnalyze == CallAnalyze \/ Analyze \/ Return

\* requests to POST /analyze
SpecAnalyze == InitAnalyze /\ [][NextAnalyze]_vars

Init == InitAnalyze

Next ==
    \/ CallGetInfo
    \/ GetInfo
    \/ CallPredict
    \/ Predict
    \/ CallAnalyze
    \/ Analyze
    \/ Return

\* the server after startup, answering one call at a time
Spec == Init /\ [][Next]_vars

(***************************************************************************)
(* Properties of CropDiseaseModel.predict (krishi-mitra-app/backend)       *)
(***************************************************************************)
\* a call of the newer adapter's predict has returned
AppPredictDone == pc = "done" /\ arg.op = "predict" /\ variant = "app"

\* C1: predict never propagates an exception: whenever the try block raises,
\* in the model path or in the demo path, predict returns the fallback made
\* of the first vocabulary label, confidence 0.0 and model_used "error".
C1_PredictNeverRaises ==
    AppPredictDone =>
        /\ ret.kind = "return"
        /\ PredictTry(model, arg.image, arg.out).kind = "raise" =>
              /\ ret.detailed_class = model.classes[1]
              /\ ret.confidence.num = 0
              /\ ret.model_used = "error"

\* C1 witness: inference raised in the model path and the fallback came back
C1_Witness ==
    /\ AppPredictDone
    /\ model.model /\ arg.image.loadable /\ arg.out.raises
    /\ ret.kind = "return" /\ ret.model_used = "error"

\* C2: every result of predict has 0.0 <= confidence <= 1.0
C2_ConfidenceInUnitInterval ==
    AppPredictDone =>
        /\ ret.kind = "return"
        /\ RatLeq(Rat(0, 1), ret.confidence)
        /\ RatLeq(ret.confidence, Rat(1, 1))

\* C3: every result of predict has a disease among the normalized slugs of
\* the vocabulary and a detailed_class that is a vocabulary label
C3_DiseaseInVocabulary ==
    AppPredictDone =>
        /\ ret.kind = "return"
        /\ ret.disease \in {model.plantvillage_to_simple[c] : c \in SeqRange(model.classes)}
        /\ ret.detailed_class \in SeqRange(model.classes)

\* C4 as stated: with the model handle absent, every call of predict returns
\* a result with model_used "demo-mode", for every input image
C4_AlwaysDemoMode ==
    (AppPredictDone /\ ~model.model) =>
        /\ ret.kind = "return"
        /\ ret.model_used = "demo-mode"

\* C4 amended: with the model handle absent, every call of predict returns;
\* model_used is "demo-mode" when preprocessing the image succeeds and
\* "error" (the fallback) when preprocessing raises
C4_DemoModeUnlessPreprocessFails ==
    (AppPredictDone /\ ~model.model) =>
        /\ ret.kind = "return"
        /\ ret.model_used = IF arg.image.loadable THEN "demo-mode" ELSE "error"

\* C4 witness: a demo-mode result of an adapter that was given a model path
\* whose file is missing
C4_Witness ==
    /\ AppPredictDone
    /\ ~model.model /\ model.model_path # "" /\ arg.image.loadable
    /\ ret.kind = "return" /\ ret.model_used = "demo-mode"

\* floor(mean * n) computed from its defining inequalities, then clamped
FloorOfMeanTimes(pixels, n) ==
    CHOOSE k \in 0..n :
        /\ k * (PixelMax * Len(pixels)) <= SeqSum(pixels) * n
        /\ SeqSum(pixels) * n < (k + 1) * (PixelMax * Len(pixels))

ClampToVocabulary(k, n) == IF k > n - 1 THEN n - 1 ELSE IF k < 0 THEN 0 ELSE k

\* the vocabulary and the image of the documented example: mean 153/510 = 0.3
ExampleVocabulary ==
    << <<"T","o","m","a","t","o","_","_","_","h","e","a","l","t","h","y">>,
       <<"T","o","m","a","t","o","_","_","_","E","a","r","l","y","_","b","l","i","g","h","t">> >>

IsExampleCall ==
    /\ model.classes = ExampleVocabulary
    /\ SeqSum(arg.image.pixels) * 10 = 3 * PixelMax * Len(arg.image.pixels)

C5_ExampleReached == AppPredictDone /\ ~model.model /\ arg.image.loadable /\ IsExampleCall

(***************************************************************************)
(* Properties of POST /analyze                                             *)
(***************************************************************************)
AnalyzeDone == pc = "done" /\ arg.op = "analyze"

\* the adapter's predict was called while handling the request
PredictCalled == \E i \in 1..Len(ret.calls) : ret.calls[i] = "predict"

\* the part of a file name after its last dot, lower-cased; empty if no dot
RECURSIVE AfterLastDot(_)
AfterLastDot(f) ==
    IF ~StrContains(f, <<".">>) THEN <<>>
    ELSE LET rest == SubSeq(f, Len(SplitFirst(f, <<".">>)) + 2, Len(f))
         IN  IF StrContains(rest, <<".">>) THEN AfterLastDot(rest) ELSE StrLower(rest)

ExtensionAccepted(f) ==
    AfterLastDot(f) \in { <<"j","p","g">>, <<"j","p","e","g">>, <<"p","n","g">> }

\* the upload is an intact image
IntactImage(req) == req.has_image /\ req.decodable /\ req.image.loadable

C7_OversizedRejected ==
    (AnalyzeDone /\ arg.request.has_image /\ arg.request.data_len > 10 * 1024 * 1024) =>
        /\ ret.status \in 400..499
        /\ ~PredictCalled

\* the request has one of the client input problems
ClientInputProblem(req) ==
    \/ ~req.has_image
    \/ req.filename = <<>>
    \/ ~ExtensionAccepted(req.filename)
    \/ ~req.decodable
    \/ req.width < 50 \/ req.height < 50

\* C8: the status classifies the outcome: 200, 400 or 500 with a JSON body,
\* and every client input problem is reported as 400, never as 500 or 200
C8_StatusClassifiesOutcome ==
    AnalyzeDone =>
        /\ ret.status \in {200, 400, 500}
        /\ ClientInputProblem(arg.request) => ret.status = 400

(***************************************************************************)
(* Properties of disease_info                                              *)
(***************************************************************************)
GetInfoDone == pc = "done" /\ arg.op = "get_info_for_simple"

\* C9: normalization is idempotent, so the lookup returns the same entry
\* for a slug and for its normalized form when that form is a table key
C9_NormalizeIdempotent ==
    GetInfoDone =>
        LET n == normalize_simple(arg.simple)
        IN  /\ normalize_simple(n) = n
            /\ n \in DOMAIN DISEASE_DB =>
                  ret.value = get_info_for_simple(DISEASE_DB, DEFAULT_ENTRY, n)

\* C9 witness: a slug that normalization changes into a table key was looked up
C9_Witness ==
    /\ GetInfoDone
    /\ normalize_simple(arg.simple) # arg.simple
    /\ normalize_simple(arg.simple) \in DOMAIN DISEASE_DB
    /\ ret.value = DISEASE_DB[normalize_simple(arg.simple)]

\* C10: a slug whose normalized form is not a table key gets the generic
\* fallback (default treatment and prevention, empty example_classes) with
\* a friendly_name that contains the input as given
C10_UnknownSlugFallback ==
    (GetInfoDone /\ normalize_simple(arg.simple) \notin DOMAIN DISEASE_DB) =>
        /\ ret.kind = "return"
        /\ ret.value.treatment = InitialDefaultEntry.treatment
        /\ ret.value.prevention = InitialDefaultEntry.prevention
        /\ lists[ret.value.example_classes] = <<>>
        /\ StrContains(ret.value.friendly_name, arg.simple)

\* C10 witness: an unknown slug that normalization changes was looked up
C10_Witness ==
    /\ GetInfoDone
    /\ normalize_simple(arg.simple) \notin DOMAIN DISEASE_DB
    /\ normalize_simple(arg.simple) # arg.simple
    /\ ret.value.friendly_name = UnknownName(arg.simple)

\* C11: after any sequence of get_info_for_simple calls the advisory table
\* and the default entry are what the module built at import
C11_TablesUnchanged ==
    /\ DISEASE_DB = InitialDiseaseDB
    /\ DEFAULT_ENTRY = InitialDefaultEntry
    /\ lists = InitialLists

\* C11 witness: a fallback with its own friendly_name was returned
C11_Witness ==
    /\ GetInfoDone
    /\ normalize_simple(arg.simple) \notin DOMAIN DISEASE_DB
    /\ ret.value.friendly_name # DEFAULT_ENTRY.friendly_name
    /\ DEFAULT_ENTRY = InitialDefaultEntry

\* C19: the plant of a predict result whose detailed_class is a vocabulary
\* label is a key of classes_by_plant, and that group contains the label
C19_PlantAgreesWithGrouping ==
    (AppPredictDone /\ ret.kind = "return" /\ ret.detailed_class \in SeqRange(model.classes)) =>
        /\ ret.plant \in DOMAIN model.classes_by_plant
        /\ ret.detailed_class \in SeqRange(model.classes_by_plant[ret.plant])

(***************************************************************************)
(* Properties of the model branch of predict                               *)
(***************************************************************************)
\* a call of predict that ran inference and got an output vector
ModelPredictDone ==
    /\ AppPredictDone
    /\ model.model /\ arg.image.loadable
    /\ ~arg.out.raises /\ arg.out.preds # <<>>

\* the first position of the largest entry of v, 1-based
FirstMaxPosition(v) ==
    CHOOSE i \in 1..Len(v) :
        /\ \A j \in 1..Len(v) : v[j] <= v[i]
        /\ \A j \in 1..Len(v) : v[j] = v[i] => i <= j

\* the label predict reports for a 1-based position
LabelAt(pos) ==
    IF pos <= Len(model.classes) THEN model.classes[pos] ELSE <<"U","n","k","n","o","w","n">>

AliasSlugs ==
    { <<"t","o","m","a","t","o","_","l","a","t","e","_","b","l","i","g","h","t">>,
      <<"c","o","r","n","_","c","o","m","m","o","n","_","r","u","s","t">>,
      <<"p","o","t","a","t","o","_","h","e","a","l","t","h","y">>,
      <<"a">>,
      <<>> }

\* what a caller writes into a returned entry
CallerValue == <<"x">>

\* what a caller reads from a dict: its keys, with the list behind
\* example_classes
Content(entry, heap) ==
    [k \in DOMAIN entry |->
        IF k = "example_classes" THEN heap[entry[k]] ELSE entry[k]]

\* a caller looks a slug up (again)
CallGetInfoAgain ==
    /\ pc = "idle"
    /\ \E simple \in AliasSlugs :
           arg' = [op |-> "get_info_for_simple", simple |-> simple]
    /\ pc' = "called"
    /\ UNCHANGED <<ret, frame>>

\* the caller assigns a key of the dict it got: the dict is a copy made by
\* dict(entry) / dict(_DEFAULT_ENTRY), so only the caller's dict changes
CallerSetsKey ==
    /\ pc = "done"
    /\ arg.op = "get_info_for_simple"
    /\ ret.value.friendly_name # CallerValue
    /\ ret' = [ret EXCEPT !.value.friendly_name = CallerValue]
    /\ UNCHANGED <<pc, arg, frame>>

\* the caller appends to the example_classes list of the dict it got: the
\* copy is shallow, so the list is the one the table's entry refers to
CallerAppends ==
    /\ pc = "done"
    /\ arg.op = "get_info_for_simple"
    /\ "example_classes" \in DOMAIN ret.value
    /\ Len(lists[ret.value.example_classes]) < MaxListLen
    /\ lists' = [lists EXCEPT ![ret.value.example_classes] = Append(@, CallerValue)]
    /\ UNCHANGED <<pc, arg, ret, variant, model, DISEASE_DB, DEFAULT_ENTRY, startup, inflight>>

NextAlias ==
    \/ CallGetInfoAgain
    \/ GetInfo
    \/ CallerSetsKey
    \/ CallerAppends
    \/ Return

\* lookups interleaved with caller mutations of the returned dicts
SpecAlias == InitInfo /\ [][NextAlias]_vars

\* C18: every lookup returns the content the first lookup of the same slug
\* returned, whatever callers did to the dicts returned in between
C18_LaterLookupsSame ==
    [][GetInfo =>
          Content(ret'.value, lists') =
              Content(get_info_for_simple(InitialDiseaseDB, InitialDefaultEntry, arg.simple),
                      InitialLists)]_vars

(***************************************************************************)
(* Startup: model bootstrap and construction of the adapter                *)
(***************************************************************************)
\* what the one download attempt does: the file arrives, the attempt ends
\* without the file (non-zero exit code), or running it raises
DownloadOutcomes == {"downloaded", "failed", "raised"}

\* a plausible slip: the subprocess call is not wrapped in try/except
BootstrapAppUncaught(s, outcome) ==
    IF ~s.exists /\ s.drive_id
    THEN IF s.script
         THEN [s EXCEPT !.phase = IF outcome = "raised" THEN "aborted" ELSE "bootstrapped",
                        !.attempts = @ + 1,
                        !.download = outcome,
                        !.exists = (outcome = "downloaded")]
         ELSE [s EXCEPT !.phase = "bootstrapped"]
    ELSE [s EXCEPT !.phase = "bootstrapped"]

\* krishi-mitra-app/backend/app.py, the block after "Starting Krishi Mitra
\* Server": one subprocess.call of download_model.py when the model file is
\* missing, GOOGLE_DRIVE_ID is set and the script is there
BootstrapApp(s, outcome) ==
    IF ~s.exists /\ s.drive_id
    THEN IF s.script
         THEN [s EXCEPT !.phase = "bootstrapped",
                        !.attempts = @ + 1,
                        !.download = outcome,
                        !.exists = (outcome = "downloaded")]
         ELSE [s EXCEPT !.phase = "bootstrapped"]
    ELSE [s EXCEPT !.phase = "bootstrapped"]

\* backend/app.py ensure_model_exists: one call of download_model() when the
\* model file is missing
BootstrapLegacy(s, outcome) ==
    IF ~s.exists
    THEN [s EXCEPT !.phase = "bootstrapped",
                   !.attempts = @ + 1,
                   !.download = outcome,
                   !.exists = (outcome = "downloaded")]
    ELSE [s EXCEPT !.phase = "bootstrapped"]

\* class_names.txt at startup: the files above and an empty file
EmptyClassFile == [readable |-> TRUE, lines |-> <<>>]

StartupClassFiles == ClassFiles \cup {EmptyClassFile}

\* the process environment and working directory app.py is started in
StartupEnvironments ==
    { [phase |-> "boot", found |-> e, exists |-> e, drive_id |-> d, script |-> sc,
       attempts |-> 0, download |-> "none",
       class_file |-> [readable |-> FALSE, lines |-> <<>>],
       tf |-> FALSE, load_attempted |-> FALSE, load_ok |-> FALSE] :
        e \in BOOLEAN, d \in BOOLEAN, sc \in BOOLEAN }

\* module level of app.py up to the creation of the Flask app
Bootstrap ==
    /\ startup.phase = "boot"
    /\ \E outcome \in DownloadOutcomes :
           startup' = IF variant = "app"
                      THEN BootstrapApp(startup, outcome)
                      ELSE BootstrapLegacy(startup, outcome)
    /\ UNCHANGED <<pc, arg, ret, variant, model, DISEASE_DB, DEFAULT_ENTRY, lists, inflight>>

\* `model = CropDiseaseModel(MODEL_PATH)` inside its try block.  load_model
\* cannot return for a file that is not there; the older adapter imports
\* tensorflow unconditionally.
Construct ==
    /\ startup.phase = "bootstrapped"
    /\ \E file \in StartupClassFiles, tf \in BOOLEAN, ok \in BOOLEAN, shape \in ModelShapes :
           /\ ok => startup.exists
           /\ variant = "legacy" => tf
           /\ model' = IF variant = "app"
                       THEN CropDiseaseModel(ModelFileName, file, startup.exists, tf, ok, shape)
                       ELSE LegacyModel(ModelFileName, file, startup.exists, ok)
           /\ startup' = [startup EXCEPT
                             !.phase = "constructed",
                             !.class_file = file,
                             !.tf = tf,
                             !.load_attempted =
                                 IF variant = "app"
                                 THEN LoadAttempted(ModelFileName, startup.exists, tf)
                                 ELSE startup.exists,
                             !.load_ok = ok]
    /\ UNCHANGED <<pc, arg, ret, variant, DISEASE_DB, DEFAULT_ENTRY, lists, inflight>>

\* app.run: the server starts to take requests
Serve ==
    /\ startup.phase = "constructed"
    /\ startup' = Started
    /\ pc' = "idle"
    /\ UNCHANGED <<arg, ret, variant, model, DISEASE_DB, DEFAULT_ENTRY, lists, inflight>>

InitStartup ==
    /\ pc = "boot"
    /\ arg = NoArg
    /\ ret = NoRet
    /\ variant \in {"app", "legacy"}
    /\ model = NoModel
    /\ DISEASE_DB = InitialDiseaseDB
    /\ DEFAULT_ENTRY = InitialDefaultEntry
    /\ lists = InitialLists
    /\ startup \in StartupEnvironments
    /\ inflight = NoInflight

NextStartup == Bootstrap \/ Construct \/ Serve

\* the import of app.py, from process start to serving
SpecStartup == InitStartup /\ [][NextStartup]_vars

\* C12: Model Bootstrap of krishi-mitra-app/backend/app.py makes no download
\* attempt when the model file exists or no remote identifier is configured,
\* makes at most one attempt otherwise, and never aborts startup: whatever
\* the attempt did, the adapter is constructed next
C12_BootstrapNeverAborts ==
    (variant = "app" /\ startup.phase # "serving") =>
        /\ startup.phase \in {"boot", "bootstrapped", "constructed"}
        /\ startup.attempts <= 1
        /\ (startup.found \/ ~startup.drive_id) => startup.attempts = 0
        /\ startup.phase = "constructed" => model.kind = "CropDiseaseModel"

\* C12 witness: the adapter was constructed after a download attempt that raised
C12_Witness ==
    /\ variant = "app"
    /\ startup.phase = "constructed"
    /\ startup.attempts = 1
    /\ startup.download = "raised"
    /\ model.kind = "CropDiseaseModel"

\* class_names.txt is there and has a line that is not blank
HasLabels(file) ==
    /\ file.readable
    /\ \E i \in 1..Len(file.lines) : StrStrip(file.lines[i]) # <<>>

\* C13: after construction the vocabulary is non-empty, and it is the
\* default set of six labels when class_names.txt is absent, unreadable,
\* empty or made of blank lines
C13_VocabularyNonEmpty ==
    startup.phase = "constructed" =>
        /\ model.classes # <<>>
        /\ ~HasLabels(startup.class_file) =>
               (model.classes = DefaultClasses /\ Len(model.classes) = 6)

\* C16: construction never fails because of the model artifact: load_model is
\* called only if a path is given and the file exists, a failed load leaves
\* the handle absent, and the handle is present only if the file existed and
\* its load succeeded
C16_ConstructionSurvivesArtifact ==
    /\ \A e \in BOOLEAN, tf \in BOOLEAN : ~LoadAttempted("", e, tf)
    /\ (variant = "app" /\ startup.phase = "constructed") =>
           /\ model.kind = "CropDiseaseModel"
           /\ startup.load_attempted => startup.exists
           /\ (startup.load_attempted /\ ~startup.load_ok) => ~model.model
           /\ model.model => (startup.exists /\ startup.load_ok)

\* C16 witness: the file was there, its load failed, and the adapter exists
\* without a handle
C16_Witness ==
    /\ variant = "app"
    /\ startup.phase = "constructed"
    /\ startup.load_attempted
    /\ ~startup.load_ok
    /\ model.kind = "CropDiseaseModel"
    /\ ~model.model

(***************************************************************************)
(* Determinism of demo mode                                                *)
(***************************************************************************)
\* C15: with no model handle, a second predict call on the same image with
\* the same vocabulary returns what the first call returned, in both
\* adapters, whatever the random generator of the process yields
C15_DemoDeterministic ==
    (pc = "done" /\ arg.op = "predict" /\ ~model.model) =>
        \A rnd \in RndsFor(model) :
            ret = IF variant = "app"
                  THEN predict(model, arg.image, arg.out)
                  ELSE LegacyPredict(model, arg.image, arg.out, rnd)

(***************************************************************************)
(* The server handling requests on several threads                         *)
(***************************************************************************)
\* a plausible slip: predict remembers the size of the image it was given
predict_self_resizing(self, width, height) ==
    [self EXCEPT !.input_size = <<width, height>>]

\* CropDiseaseModel.predict and preprocess: the adapter object after the
\* call.  Neither method assigns an attribute of self or mutates one of its
\* containers.
predict_self(self, width, height) == self

\* GET /health
HealthBody(m) ==
    [status |-> "healthy",
     model_loaded |-> m.model,
     supported_diseases |-> Len(m.classes)]

\* GET /classes: info.get('example_classes', pv_list) falls back to the
\* label the slug maps to
ClassesBody(m, db, default, lsts) ==
    [classes |-> m.classes,
     plantvillage_to_simple |-> m.plantvillage_to_simple,
     simple_to_plantvillage |-> m.simple_to_plantvillage,
     by_plant |-> m.classes_by_plant,
     disease_info |->
        [slug \in DOMAIN m.simple_to_plantvillage |->
            LET info == get_info_for_simple(db, default, slug)
            IN  [friendly_name |-> info.friendly_name,
                 treatment |-> info.treatment,
                 prevention |-> info.prevention,
                 example_classes |->
                     IF "example_classes" \in DOMAIN info
                     THEN lsts[info.example_classes]
                     ELSE m.simple_to_plantvillage[slug]]]]

Routes == {"/analyze", "/health", "/classes"}

\* uploads sent while other requests are in flight: none, an image that is
\* accepted, and one whose pixels do not load
ConcurrentRequests ==
    {NoUpload} \cup
    { [has_image |-> TRUE, filename |-> <<"a",".","j","p","g">>, data_len |-> 1024,
       decodable |-> TRUE, width |-> MinDimension, height |-> MinDimension,
       image |-> [loadable |-> l, pixels |-> [i \in 1..NumPixels |-> 77]]] :
          l \in BOOLEAN }

\* what a loaded model does during concurrent requests
ConcurrentOutputs ==
    { [raises |-> TRUE, preds |-> <<>>],
      [raises |-> FALSE, preds |-> <<1500, -500>>] }

\* a thread takes a request
Receive(w) ==
    /\ inflight[w].pc = "idle"
    /\ \E route \in Routes,
          req \in ConcurrentRequests,
          out \in OutsFor(model, ConcurrentOutputs) :
           /\ route # "/analyze" => (req = NoUpload /\ out = NoOut)
           /\ inflight' = [inflight EXCEPT ![w] =
                              [pc |-> "handling", route |-> route,
                               request |-> req, out |-> out]]
    /\ UNCHANGED <<pc, arg, ret, variant, model, DISEASE_DB, DEFAULT_ENTRY, lists, startup>>

\* analyze_image on thread w
HandleAnalyze(w) ==
    /\ inflight[w].pc = "handling"
    /\ inflight[w].route = "/analyze"
    /\ LET req  == inflight[w].request
           resp == AppAnalyze(model, DISEASE_DB, DEFAULT_ENTRY, lists, req, inflight[w].out)
           predicted == \E i \in 1..Len(resp.calls) : resp.calls[i] = "predict"
           looked_up == \E i \in 1..Len(resp.calls) : resp.calls[i] = "get_info_for_simple"
           slug == IF looked_up THEN resp.body.disease ELSE <<>>
       IN  /\ inflight' = [inflight EXCEPT ![w] =
                              [pc |-> "done", route |-> "/analyze", response |-> resp]]
           /\ model' = IF predicted THEN predict_self(model, req.width, req.height) ELSE model
           /\ DISEASE_DB' = IF looked_up
                            THEN get_info_tables(DISEASE_DB, DEFAULT_ENTRY, slug).db
                            ELSE DISEASE_DB
           /\ DEFAULT_ENTRY' = IF looked_up
                               THEN get_info_tables(DISEASE_DB, DEFAULT_ENTRY, slug).default
                               ELSE DEFAULT_ENTRY
    /\ UNCHANGED <<pc, arg, ret, variant, lists, startup>>

\* health_check on thread w
HandleHealth(w) ==
    /\ inflight[w].pc = "handling"
    /\ inflight[w].route = "/health"
    /\ inflight' = [inflight EXCEPT ![w] =
                       [pc |-> "done", route |-> "/health",
                        response |-> Response(200, HealthBody(model), <<>>)]]
    /\ UNCHANGED <<pc, arg, ret, variant, model, DISEASE_DB, DEFAULT_ENTRY, lists, startup>>

\* list_classes on thread w
HandleClasses(w) ==
    /\ inflight[w].pc = "handling"
    /\ inflight[w].route = "/classes"
    /\ inflight' = [inflight EXCEPT ![w] =
                       [pc |-> "done", route |-> "/classes",
                        response |-> Response(200,
                            ClassesBody(model, DISEASE_DB, DEFAULT_ENTRY, lists),
                            <<"get_info_for_simple">>)]]
    /\ UNCHANGED <<pc, arg, ret, variant, model, DISEASE_DB, DEFAULT_ENTRY, lists, startup>>

\* the response of thread w is sent
Respond(w) ==
    /\ inflight[w].pc = "done"
    /\ inflight' = [inflight EXCEPT ![w] = IdleWorker]
    /\ UNCHANGED <<pc, arg, ret, variant, model, DISEASE_DB, DEFAULT_ENTRY, lists, startup>>

ReceiveRequest == \E w \in Workers : Receive(w)

AnalyzeOnThread == \E w \in Workers : HandleAnalyze(w)

HealthOnThread == \E w \in Workers : HandleHealth(w)

ClassesOnThread == \E w \in Workers : HandleClasses(w)

SendResponse == \E w \in Workers : Respond(w)

\* the newer app after startup, with and without a loaded model
InitServe ==
    /\ pc = "idle"
    /\ arg = NoArg
    /\ ret = NoRet
    /\ variant = "app"
    /\ model \in { CropDiseaseModel(ModelFileName, file, exists, TRUE, TRUE, <<0, 128, 96, 3>>) :
                      file \in ClassFiles, exists \in BOOLEAN }
    /\ DISEASE_DB = InitialDiseaseDB
    /\ DEFAULT_ENTRY = InitialDefaultEntry
    /\ lists = InitialLists
    /\ startup = Started
    /\ inflight = NoInflight

NextServe ==
    \/ ReceiveRequest
    \/ AnalyzeOnThread
    \/ HealthOnThread
    \/ ClassesOnThread
    \/ SendResponse

\* the threaded server answering /analyze, /health and /classes
SpecServe == InitServe /\ [][NextServe]_vars

\* C14: no step of any request handler, in any interleaving, writes the
\* shared state created at startup: the model handle, the vocabulary, the
\* three label mappings and input_size stay as they are
C14_SharedStateNeverWritten ==
    [][ /\ model'.model = model.model
        /\ model'.classes = model.classes
        /\ model'.plantvillage_to_simple = model.plantvillage_to_simple
        /\ model'.simple_to_plantvillage = model.simple_to_plantvillage
        /\ model'.classes_by_plant = model.classes_by_plant
        /\ model'.input_size = model.input_size ]_vars

\* C14 witness: one thread has answered an /analyze request with a
\* prediction while another thread is still handling its own request
C14_Witness ==
    \E w1 \in Workers, w2 \in Workers :
        /\ w1 # w2
        /\ inflight[w1].pc = "done"
        /\ inflight[w1].route = "/analyze"
        /\ inflight[w1].response.status = 200
        /\ inflight[w2].pc = "handling"

====
